---- MODULE Spec2Model ----
(***************************************************************************)
(* A state-machine model of the SlewRateLimiter class: an all-integer     *)
(* slew-rate limiter with an EMA, a fixed or adaptive rate limit and a    *)
(* hysteresis gate.  The operations are the constructor (Init), the       *)
(* processValue handler, the four setters and reset.                      *)
(***************************************************************************)
EXTENDS Integers, Sequences, FiniteSets, TLC

VARIABLES
    lastValue,              \* int lastValue: the last output value
    emaValue,               \* int emaValue: the current EMA
    isFirstCall,            \* bool isFirstCall
    currentExponent,        \* SRL_SmoothingExponent currentExponent
    rateLimit,              \* int rateLimit
    hysteresisBand,         \* int hysteresisBand
    adaptiveSlopeInternal,  \* int adaptiveSlopeInternal (slope scaled to base 128)
    phase,                  \* observer: "constructed", "reset" or "tracking"
                            \* (how the instance came to its state)
    call,                   \* observer: the last operation, its argument, locals and result
    ins,                    \* observer: the inputs of the logged processValue calls
    outs,                   \* observer: the values those calls returned
    probe,                  \* observer: inputs and results of the allowed-step evaluation
    twin                    \* a second instance (lastValue, emaValue, isFirstCall,
                            \* currentExponent, last returned value) that shares
                            \* rateLimit, hysteresisBand and adaptiveSlopeInternal

vars == <<lastValue, emaValue, isFirstCall, currentExponent, rateLimit,
          hysteresisBand, adaptiveSlopeInternal, phase, call, ins, outs, probe,
          twin>>

config == <<currentExponent, rateLimit, hysteresisBand, adaptiveSlopeInternal>>

observers == <<ins, outs, probe, twin>>

----------------------------------------------------------------------------
(* Bounds of the model. *)

\* processValue inputs are drawn from -MaxInput .. MaxInput
MaxInput == 3

\* rate limits are drawn from -1 .. MaxRate
MaxRate == 2

\* hysteresis bands are drawn from -1 .. MaxBand
MaxBand == 1

\* a processValue call is explored only while the output stays in -MaxOutput .. MaxOutput
\* (with a negative rate limit the output runs away from the input without bound)
MaxOutput == 5

\* the logged scenario runs make at most MaxCalls processValue calls
MaxCalls == 4

\* the allowed-step evaluation takes deltas -MaxDelta .. MaxDelta
MaxDelta == 8

\* the slope conversion is evaluated for the percentages 0 .. MaxPercent
MaxPercent == 200

\* the sensor range: the wide-range runs take inputs of magnitude up to SensorRange
SensorRange == 10000

\* a held input is fed at most MaxHold times
MaxHold == 6

Inputs == (0 - MaxInput) .. MaxInput

Rates == (0 - 1) .. MaxRate

Bands == (0 - 1) .. MaxBand

\* slope percentages handed to the constructor and to setAdaptiveSlope
Slopes == {0 - 50, 0, 50, 70, 100, 150}

----------------------------------------------------------------------------
(* The enumeration SRL_SmoothingExponent. *)

SRL_SMOOTHING_1 == 0

SRL_SMOOTHING_4 == 2

SRL_SMOOTHING_512 == 9

\* the enumerators the model hands to the constructor and to setSmoothingExponent
Exponents == {SRL_SMOOTHING_1, SRL_SMOOTHING_4, SRL_SMOOTHING_512}

----------------------------------------------------------------------------
(* Integer arithmetic of the C++ code. *)

\* abs(x)
Abs(x) == IF x > 0 THEN x ELSE 0 - x

\* x << n on int
Shl(x, n) == x * (2 ^ n)

\* x >> n on int: an arithmetic shift, rounding toward minus infinity
Shr(x, n) == x \div (2 ^ n)

\* a / b on int, b > 0: the quotient truncated toward zero
Quot(a, b) == IF a >= 0 THEN a \div b ELSE 0 - ((0 - a) \div b)

----------------------------------------------------------------------------
(* The pure parts of the class. *)

\* updateEMA computed with a truncating division in place of the right shift
updateEMATruncating(newValue, currentEMA, smoothingExponent) ==
    Quot(Shl(newValue, smoothingExponent) + Shl(currentEMA, 10)
             - Shl(currentEMA, smoothingExponent), 1024)

\* int updateEMA(int newValue, int currentEMA, SRL_SmoothingExponent smoothingExponent)
updateEMA(newValue, currentEMA, smoothingExponent) ==
    Shr(Shl(newValue, smoothingExponent) + Shl(currentEMA, 10)
            - Shl(currentEMA, smoothingExponent), 10)

\* the conversion without the rounding offset
ScaledSlopeNoRounding(slope) == Quot(slope * 128, 100)

\* the conversion to a scale of 2^20 in place of 128
ScaledSlopeBase2p20(slope) == Quot(slope * 1048576 + 50, 100)

\* setAdaptiveSlope's conversion of a percentage to the base-128 scale
ScaledSlope(slope) == Quot(slope * 128 + 50, 100)

\* the adaptive term computed from delta instead of abs(delta)
AllowedChangeSigned(rate, slopeInternal, delta) ==
    IF slopeInternal # 0
    THEN rate + Shr(delta * slopeInternal, 7)
    ELSE rate

\* the adaptive term shifted by 8 instead of 7
AllowedChangeShift8(rate, slopeInternal, delta) ==
    IF slopeInternal # 0
    THEN rate + Shr(Abs(delta) * slopeInternal, 8)
    ELSE rate

\* processValue: allowedChange = rateLimit, plus the adaptive term when the slope is not 0
AllowedChange(rate, slopeInternal, delta) ==
    IF slopeInternal # 0
    THEN rate + Shr(Abs(delta) * slopeInternal, 7)
    ELSE rate

\* processValue: the branch taken by the rate limiting
RateBranch(delta, allowedChange) ==
    IF delta > allowedChange THEN "up"
    ELSE IF delta < 0 - allowedChange THEN "down"
    ELSE "snap"

\* the rate limiting without its downward branch
RateLimitedUpOnly(currentValue, last, allowedChange) ==
    IF currentValue - last > allowedChange THEN last + allowedChange
    ELSE currentValue

\* the rate limiting stepping only while the gap is at least twice the allowed change
RateLimitedEarlySnap(currentValue, last, allowedChange) ==
    IF currentValue - last > 2 * allowedChange THEN last + allowedChange
    ELSE IF currentValue - last < 0 - (2 * allowedChange) THEN last - allowedChange
    ELSE currentValue

\* the rate limiting always stepping by the allowed change, never assigning the input
RateLimitedAlwaysStep(currentValue, last, allowedChange) ==
    IF currentValue - last >= 0 THEN last + allowedChange
    ELSE last - allowedChange

\* processValue: lastValue after the rate limiting
RateLimited(currentValue, last, allowedChange) ==
    IF currentValue - last > allowedChange THEN last + allowedChange
    ELSE IF currentValue - last < 0 - allowedChange THEN last - allowedChange
    ELSE currentValue

\* the hysteresis test with < in place of <=
HysteresisStrict(currentValue, stepped, band) ==
    IF Abs(currentValue - stepped) < band THEN currentValue ELSE stepped

\* processValue: lastValue after the hysteresis
Hysteresis(currentValue, stepped, band) ==
    IF Abs(currentValue - stepped) <= band THEN currentValue ELSE stepped

----------------------------------------------------------------------------
(* The observers' records. *)

\* the record of an operation that is no tracking processValue call
Called(op, arg, ret, was, first, prev) ==
    [op |-> op, arg |-> arg, ret |-> ret, was |-> was, first |-> first, prev |-> prev,
     delta |-> 0, allowedChange |-> 0, stepped |-> 0, branch |-> "none"]

NoProbe ==
    [rate |-> 0, percent |-> 0, d1 |-> 0, d2 |-> 0, done |-> FALSE,
     a1 |-> 0, a2 |-> 0, a1Doubled |-> 0]

\* the second instance as its constructor leaves it
Twin(exponent) ==
    [lastValue |-> 0, emaValue |-> 0, isFirstCall |-> TRUE,
     currentExponent |-> exponent, ret |-> 0]

NoTwin == Twin(SRL_SMOOTHING_4)

----------------------------------------------------------------------------
(* The constructor. *)

\* SlewRateLimiter(exponent, rate, hystBand, slope)
Constructor(exponent, rate, hystBand, slope) ==
    /\ lastValue = 0
    /\ emaValue = 0
    /\ isFirstCall = TRUE
    /\ currentExponent = exponent
    /\ rateLimit = rate
    /\ hysteresisBand = hystBand
    /\ adaptiveSlopeInternal = ScaledSlope(slope)
    /\ phase = "constructed"
    /\ call = Called("SlewRateLimiter", slope, 0, "none", TRUE, 0)

\* the constructor's default arguments
DefaultExponent == SRL_SMOOTHING_4

DefaultRate == 5

DefaultBand == 2

DefaultSlope == 0

----------------------------------------------------------------------------
(* processValue. *)

\* the first call forgetting to seed the EMA
processFirstNoEma(currentValue) ==
    /\ lastValue' = currentValue
    /\ emaValue' = emaValue
    /\ isFirstCall' = FALSE
    /\ phase' = "tracking"
    /\ call' = Called("processValue", currentValue, currentValue, phase, TRUE, lastValue)
    /\ UNCHANGED config

\* the first call leaving isFirstCall set
processFirstKeepsFlag(currentValue) ==
    /\ lastValue' = currentValue
    /\ emaValue' = currentValue
    /\ isFirstCall' = isFirstCall
    /\ phase' = "tracking"
    /\ call' = Called("processValue", currentValue, currentValue, phase, TRUE, lastValue)
    /\ UNCHANGED config

\* processValue, isFirstCall true
processFirst(currentValue) ==
    /\ lastValue' = currentValue
    /\ emaValue' = currentValue
    /\ isFirstCall' = FALSE
    /\ phase' = "tracking"
    /\ call' = Called("processValue", currentValue, currentValue, phase, TRUE, lastValue)
    /\ UNCHANGED config

\* processValue, isFirstCall false
processNext(currentValue) ==
    LET delta == currentValue - lastValue
        allowedChange == AllowedChange(rateLimit, adaptiveSlopeInternal, delta)
        stepped == RateLimited(currentValue, lastValue, allowedChange)
        out == Hysteresis(currentValue, stepped, hysteresisBand)
    IN  /\ emaValue' = updateEMA(currentValue, emaValue, currentExponent)
        /\ lastValue' = out
        /\ call' = [op |-> "processValue", arg |-> currentValue, ret |-> out,
                    was |-> phase, first |-> FALSE, prev |-> lastValue,
                    delta |-> delta,
                    allowedChange |-> allowedChange, stepped |-> stepped,
                    branch |-> RateBranch(delta, allowedChange)]
        /\ UNCHANGED <<isFirstCall, phase, config>>

\* int processValue(int currentValue)
processValue(currentValue) ==
    IF isFirstCall THEN processFirst(currentValue) ELSE processNext(currentValue)

----------------------------------------------------------------------------
(* The setters and reset. *)

\* void setRateLimit(int limit)
setRateLimit(limit) ==
    /\ rateLimit' = limit
    /\ call' = Called("setRateLimit", limit, 0, phase, isFirstCall, lastValue)
    /\ UNCHANGED <<lastValue, emaValue, isFirstCall, phase, currentExponent,
                   hysteresisBand, adaptiveSlopeInternal>>

\* setHysteresisBand storing the band in rateLimit
setHysteresisBandWrongField(band) ==
    /\ rateLimit' = band
    /\ call' = Called("setHysteresisBand", band, 0, phase, isFirstCall, lastValue)
    /\ UNCHANGED <<lastValue, emaValue, isFirstCall, phase, currentExponent,
                   hysteresisBand, adaptiveSlopeInternal>>

\* void setHysteresisBand(int band)
setHysteresisBand(band) ==
    /\ hysteresisBand' = band
    /\ call' = Called("setHysteresisBand", band, 0, phase, isFirstCall, lastValue)
    /\ UNCHANGED <<lastValue, emaValue, isFirstCall, phase, currentExponent,
                   rateLimit, adaptiveSlopeInternal>>

\* setSmoothingExponent storing the smoothing factor 2^exponent in place of the exponent
setSmoothingExponentAsFactor(exponent) ==
    /\ currentExponent' = 2 ^ exponent
    /\ call' = Called("setSmoothingExponent", exponent, 0, phase, isFirstCall, lastValue)
    /\ UNCHANGED <<lastValue, emaValue, isFirstCall, phase, rateLimit,
                   hysteresisBand, adaptiveSlopeInternal>>

\* void setSmoothingExponent(SRL_SmoothingExponent exponent)
setSmoothingExponent(exponent) ==
    /\ currentExponent' = exponent
    /\ call' = Called("setSmoothingExponent", exponent, 0, phase, isFirstCall, lastValue)
    /\ UNCHANGED <<lastValue, emaValue, isFirstCall, phase, rateLimit,
                   hysteresisBand, adaptiveSlopeInternal>>

\* void setAdaptiveSlope(int slope)
setAdaptiveSlope(slope) ==
    /\ adaptiveSlopeInternal' = ScaledSlope(slope)
    /\ call' = Called("setAdaptiveSlope", slope, 0, phase, isFirstCall, lastValue)
    /\ UNCHANGED <<lastValue, emaValue, isFirstCall, phase, currentExponent,
                   rateLimit, hysteresisBand>>

\* a reset that sets the flag and leaves the history in place
resetFlagOnly ==
    /\ isFirstCall' = TRUE
    /\ phase' = "reset"
    /\ call' = Called("reset", 0, 0, phase, isFirstCall, lastValue)
    /\ UNCHANGED <<lastValue, emaValue, config>>

\* void reset()
reset ==
    /\ isFirstCall' = TRUE
    /\ lastValue' = 0
    /\ emaValue' = 0
    /\ phase' = "reset"
    /\ call' = Called("reset", 0, 0, phase, isFirstCall, lastValue)
    /\ UNCHANGED config

----------------------------------------------------------------------------
(* Spec: one instance under every interleaving of its operations. *)

Outputs == (0 - MaxOutput) .. MaxOutput

Init ==
    /\ \E exponent \in Exponents, rate \in Rates, hystBand \in Bands, slope \in Slopes :
           Constructor(exponent, rate, hystBand, slope)
    /\ ins = << >>
    /\ outs = << >>
    /\ probe = NoProbe
    /\ twin = NoTwin

ProcessValue ==
    \E currentValue \in Inputs :
        /\ processValue(currentValue)
        /\ lastValue' \in Outputs
        /\ UNCHANGED observers

SetRateLimit == \E limit \in Rates : setRateLimit(limit) /\ UNCHANGED observers

SetHysteresisBand == \E band \in Bands : setHysteresisBand(band) /\ UNCHANGED observers

SetSmoothingExponent ==
    \E exponent \in Exponents : setSmoothingExponent(exponent) /\ UNCHANGED observers

SetAdaptiveSlope == \E slope \in Slopes : setAdaptiveSlope(slope) /\ UNCHANGED observers

Reset == reset /\ UNCHANGED observers

Next ==
    \/ ProcessValue
    \/ SetRateLimit
    \/ SetHysteresisBand
    \/ SetSmoothingExponent
    \/ SetAdaptiveSlope
    \/ Reset

Spec == Init /\ [][Next]_vars

----------------------------------------------------------------------------
(* SpecScenario: a freshly constructed instance fed logged processValue     *)
(* calls only, every input and every returned value kept in ins and outs.   *)

\* constructor arguments of the scenario runs: the defaults, the defaults with
\* band 0 and slope 100, and the README's adaptive example
ScenarioConfigs ==
    { <<DefaultExponent, DefaultRate, DefaultBand, DefaultSlope>>,
      <<DefaultExponent, DefaultRate, 0, 100>>,
      <<4, 10, 3, 50>> }

ScenarioInputs == {0, 20, 50}

InitScenario ==
    /\ \E c \in ScenarioConfigs : Constructor(c[1], c[2], c[3], c[4])
    /\ ins = << >>
    /\ outs = << >>
    /\ probe = NoProbe
    /\ twin = NoTwin

LoggedProcessValue ==
    \E currentValue \in ScenarioInputs :
        /\ Len(ins) < MaxCalls
        /\ processValue(currentValue)
        /\ ins' = Append(ins, currentValue)
        /\ outs' = Append(outs, call'.ret)
        /\ UNCHANGED <<probe, twin>>

NextScenario == LoggedProcessValue

SpecScenario == InitScenario /\ [][NextScenario]_vars

----------------------------------------------------------------------------
(* SpecAllowed: the allowed step of processValue as a function of the rate  *)
(* limit, the slope percentage and delta, evaluated on drawn inputs.        *)

ProbePercents == {1, 10, 25, 50, 75, 100, 150}

Deltas == (0 - MaxDelta) .. MaxDelta

InitAllowed ==
    /\ Constructor(DefaultExponent, DefaultRate, DefaultBand, DefaultSlope)
    /\ ins = << >>
    /\ outs = << >>
    /\ \E rate \in Rates, percent \in ProbePercents, d1 \in Deltas, d2 \in Deltas :
           probe = [NoProbe EXCEPT !.rate = rate, !.percent = percent,
                                   !.d1 = d1, !.d2 = d2]
    /\ twin = NoTwin

\* the allowed step at (percent, d1), at (percent, d2) and at (2 * percent, d1)
EvalAllowed ==
    /\ ~probe.done
    /\ probe' = [probe EXCEPT
                   !.done = TRUE,
                   !.a1 = AllowedChange(probe.rate, ScaledSlope(probe.percent), probe.d1),
                   !.a2 = AllowedChange(probe.rate, ScaledSlope(probe.percent), probe.d2),
                   !.a1Doubled =
                       AllowedChange(probe.rate, ScaledSlope(2 * probe.percent), probe.d1)]
    /\ UNCHANGED <<lastValue, emaValue, isFirstCall, config, phase, call, ins, outs,
                   twin>>

NextAllowed == EvalAllowed

SpecAllowed == InitAllowed /\ [][NextAllowed]_vars

----------------------------------------------------------------------------
(* SpecTwin: two instances constructed with the same rate, band and slope   *)
(* and with smoothing exponents of their own, fed the same processValue and *)
(* reset calls; either exponent may be changed at any point.                *)

\* processValue on the second instance, the adaptive term driven by the distance of
\* the input from the EMA
processValueOnEmaDriven(t, currentValue) ==
    IF t.isFirstCall
    THEN [t EXCEPT !.lastValue = currentValue, !.emaValue = currentValue,
                   !.isFirstCall = FALSE, !.ret = currentValue]
    ELSE LET ema == updateEMA(currentValue, t.emaValue, t.currentExponent)
             delta == currentValue - t.lastValue
             allowedChange ==
                 AllowedChange(rateLimit, adaptiveSlopeInternal, currentValue - ema)
             stepped ==
                 IF delta > allowedChange THEN t.lastValue + allowedChange
                 ELSE IF delta < 0 - allowedChange THEN t.lastValue - allowedChange
                 ELSE currentValue
             out == Hysteresis(currentValue, stepped, hysteresisBand)
         IN  [t EXCEPT !.emaValue = ema, !.lastValue = out, !.ret = out]

\* int processValue(int currentValue) on the second instance
processValueOn(t, currentValue) ==
    IF t.isFirstCall
    THEN [t EXCEPT !.lastValue = currentValue, !.emaValue = currentValue,
                   !.isFirstCall = FALSE, !.ret = currentValue]
    ELSE LET delta == currentValue - t.lastValue
             allowedChange == AllowedChange(rateLimit, adaptiveSlopeInternal, delta)
             stepped == RateLimited(currentValue, t.lastValue, allowedChange)
             out == Hysteresis(currentValue, stepped, hysteresisBand)
         IN  [t EXCEPT !.emaValue = updateEMA(currentValue, t.emaValue, t.currentExponent),
                       !.lastValue = out, !.ret = out]

\* void reset() on the second instance
resetOn(t) == [t EXCEPT !.isFirstCall = TRUE, !.lastValue = 0, !.emaValue = 0]

\* void setSmoothingExponent(exponent) on the second instance
setSmoothingExponentOn(t, exponent) == [t EXCEPT !.currentExponent = exponent]

\* the (rate, hystBand, slope) the two instances are constructed with
TwinConfigs ==
    { <<1, 0, 0>>, <<2, 1, 50>>, <<1, 0, 100>>, <<0, 1, 70>>, <<0 - 1, 0, 0>>,
      <<1, 0 - 1, 0 - 50>> }

InitTwin ==
    /\ \E e1 \in Exponents, e2 \in Exponents, c \in TwinConfigs :
           /\ Constructor(e1, c[1], c[2], c[3])
           /\ twin = Twin(e2)
    /\ ins = << >>
    /\ outs = << >>
    /\ probe = NoProbe

\* both instances are given the same input
BothProcessValue ==
    \E currentValue \in Inputs :
        /\ processValue(currentValue)
        /\ lastValue' \in Outputs
        /\ twin' = processValueOn(twin, currentValue)
        /\ UNCHANGED <<ins, outs, probe>>

\* both instances are reset
BothReset ==
    /\ reset
    /\ twin' = resetOn(twin)
    /\ UNCHANGED <<ins, outs, probe>>

\* the first instance's exponent is changed
FirstSetSmoothingExponent ==
    \E exponent \in Exponents : setSmoothingExponent(exponent) /\ UNCHANGED observers

\* the second instance's exponent is changed
SecondSetSmoothingExponent ==
    \E exponent \in Exponents :
        /\ twin' = setSmoothingExponentOn(twin, exponent)
        /\ UNCHANGED <<lastValue, emaValue, isFirstCall, config, phase, call, ins, outs,
                       probe>>

NextTwin ==
    \/ BothProcessValue
    \/ BothReset
    \/ FirstSetSmoothingExponent
    \/ SecondSetSmoothingExponent

SpecTwin == InitTwin /\ [][NextTwin]_vars

----------------------------------------------------------------------------
(* SpecWide: freshly constructed instances fed logged processValue calls    *)
(* with inputs over the whole sensor range, every int operation of the      *)
(* listed intermediates tested against the 32-bit range before it is made.  *)

\* x << n fits a 32-bit int
FitsShl(x, n) ==
    /\ x <= 2147483647 \div (2 ^ n)
    /\ x >= 0 - (2147483647 \div (2 ^ n)) - 1

\* a + b fits a 32-bit int, for a and b that do
FitsAdd(a, b) ==
    IF b >= 0 THEN a <= 2147483647 - b ELSE a >= (0 - 2147483647 - 1) - b

\* a - b fits a 32-bit int, for a and b that do
FitsSub(a, b) ==
    IF b >= 0 THEN a >= (0 - 2147483647 - 1) + b ELSE a <= 2147483647 + b

\* a * b fits a 32-bit int, for a >= 0 and b >= 0
FitsMul(a, b) == a = 0 \/ b = 0 \/ a <= 2147483647 \div b

\* updateEMA: newValue << e, currentEMA << 10, currentEMA << e, their sum and the
\* difference all fit
EmaFits(newValue, currentEMA, smoothingExponent) ==
    /\ FitsShl(newValue, smoothingExponent)
    /\ FitsShl(currentEMA, 10)
    /\ FitsShl(currentEMA, smoothingExponent)
    /\ FitsAdd(Shl(newValue, smoothingExponent), Shl(currentEMA, 10))
    /\ FitsSub(Shl(newValue, smoothingExponent) + Shl(currentEMA, 10),
               Shl(currentEMA, smoothingExponent))

\* processValue: abs(delta) * adaptiveSlopeInternal fits (it is computed only when
\* the slope is not 0, which the wide-range runs keep non-negative)
AdaptiveFits(currentValue, last, slopeInternal) ==
    \/ slopeInternal = 0
    \/ /\ FitsSub(currentValue, last)
       /\ FitsMul(Abs(currentValue - last), slopeInternal)

\* a tracking processValue call one of whose listed intermediates leaves the 32-bit
\* range: signed overflow is undefined behaviour, the call is recorded and the
\* instance is followed no further
processOverflow(currentValue) ==
    /\ call' = [Called("processValue", currentValue, 0, phase, FALSE, lastValue)
                   EXCEPT !.branch = "overflow"]
    /\ phase' = "overflowed"
    /\ UNCHANGED <<lastValue, emaValue, isFirstCall, config>>

WideInputs == {0 - SensorRange, 0 - 1, 0, 1, SensorRange}

WideRates == {0 - 20000000, 0, 5, SensorRange}

WideBands == {0, 2}

WideSlopes == {0, 1, 100}

InitWide ==
    /\ \E exponent \in Exponents, rate \in WideRates, hystBand \in WideBands,
          slope \in WideSlopes :
           Constructor(exponent, rate, hystBand, slope)
    /\ ins = << >>
    /\ outs = << >>
    /\ probe = NoProbe
    /\ twin = NoTwin

WideProcessValue ==
    \E currentValue \in WideInputs :
        /\ Len(ins) < MaxCalls
        /\ phase # "overflowed"
        /\ IF \/ isFirstCall
              \/ /\ EmaFits(currentValue, emaValue, currentExponent)
                 /\ AdaptiveFits(currentValue, lastValue, adaptiveSlopeInternal)
           THEN processValue(currentValue)
           ELSE processOverflow(currentValue)
        /\ ins' = Append(ins, currentValue)
        /\ outs' = Append(outs, call'.ret)
        /\ UNCHANGED <<probe, twin>>

NextWide == WideProcessValue

SpecWide == InitWide /\ [][NextWide]_vars

----------------------------------------------------------------------------
(* SpecHold: processValue calls with any inputs, then processValue calls    *)
(* that all pass the same input, with no setter and no reset between them.  *)
(* ins logs the held calls' inputs; outs starts with lastValue as it was    *)
(* before the first held call and continues with the held calls' returns.   *)

FreeProcessValue ==
    /\ ins = << >>
    /\ ProcessValue

HoldProcessValue ==
    \E currentValue \in Inputs :
        /\ Len(ins) < MaxHold
        /\ ins # << >> => currentValue = ins[1]
        /\ processValue(currentValue)
        /\ ins' = Append(ins, currentValue)
        /\ outs' = IF ins = << >> THEN <<lastValue, call'.ret>>
                   ELSE Append(outs, call'.ret)
        /\ UNCHANGED <<probe, twin>>

NextHold == FreeProcessValue \/ HoldProcessValue

SpecHold == Init /\ [][NextHold]_vars

----------------------------------------------------------------------------
(* Shorthands of the properties. *)

\* the last operation was a processValue call
Processed == call.op = "processValue"

\* the last operation was a processValue call made in the Tracking state
Tracked == call.op = "processValue" /\ ~call.first

\* the magnitude of the change of the output made by the last call
Step == Abs(call.ret - call.prev)

----------------------------------------------------------------------------
(* C1 - C5: the first call, the fixed-mode bound and the hysteresis. *)

\* C1: the first processValue(x) of a constructed instance, and the first one after a
\* reset whatever came before it, returns x and leaves lastValue = emaValue = x with
\* isFirstCall false (the instance initialized).
C1_FirstCallPassthrough ==
    (Processed /\ call.first) =>
        /\ call.ret = call.arg
        /\ lastValue = call.arg
        /\ emaValue = call.arg
        /\ ~isFirstCall

\* a first call after a reset, with an input other than 0 and under a negative rateLimit
C1_Witness ==
    /\ Processed
    /\ call.first
    /\ call.arg # 0
    /\ call.ret = call.arg
    /\ emaValue = call.arg
    /\ call.was = "reset"
    /\ rateLimit < 0

\* C2: with adaptive slope 0, hysteresisBand 0 and rateLimit >= 0, a tracking call moves
\* the output by at most rateLimit, and by exactly rateLimit whenever the input is at
\* least rateLimit away from the previous output.
C2_FixedModeBound ==
    (Tracked /\ adaptiveSlopeInternal = 0 /\ hysteresisBand = 0 /\ rateLimit >= 0) =>
        /\ Step <= rateLimit
        /\ (Abs(call.arg - call.prev) >= rateLimit => Step = rateLimit)

\* a downward step of exactly rateLimit > 0 toward an input that is farther away
C2_Witness ==
    /\ Tracked
    /\ adaptiveSlopeInternal = 0
    /\ hysteresisBand = 0
    /\ rateLimit > 0
    /\ call.prev - call.arg > rateLimit
    /\ call.ret = call.prev - rateLimit

\* C3: in fixed mode with hysteresisBand >= 0 and rateLimit >= 0, no tracking call
\* returns a value more than rateLimit away from the previously returned value.
C3_RateLimitIsMaximumChange ==
    (Tracked /\ adaptiveSlopeInternal = 0 /\ hysteresisBand >= 0 /\ rateLimit >= 0) =>
        Step <= rateLimit

\* C4: when the value left by the rate limiting is within hysteresisBand of the input,
\* a tracking call returns the input itself and leaves it in lastValue.
C4_HysteresisSnap ==
    (Tracked /\ Abs(call.arg - call.stepped) <= hysteresisBand) =>
        /\ call.ret = call.arg
        /\ lastValue = call.arg

\* the rate limiting stopped short of the input, exactly hysteresisBand away, and the
\* call returned the input
C4_Witness ==
    /\ Tracked
    /\ call.branch # "snap"
    /\ call.stepped # call.arg
    /\ hysteresisBand > 0
    /\ Abs(call.arg - call.stepped) = hysteresisBand
    /\ call.ret = call.arg

\* C5: a tracking call whose input is within hysteresisBand of the last output returns
\* the previous output unchanged.
\* (stated for rateLimit >= 0 and a slope >= 0, where the output never moves away from
\* the input)
C5_HysteresisHoldsOutput ==
    (/\ Tracked
     /\ rateLimit >= 0
     /\ adaptiveSlopeInternal >= 0
     /\ Abs(call.arg - call.prev) <= hysteresisBand) =>
        call.ret = call.prev

----------------------------------------------------------------------------
(* C6 - C7: the two worked scenarios, checked under SpecScenario. *)

\* the instance was constructed with the given rate, band and scaled slope
Configured(rate, hystBand, slopeInternal) ==
    /\ rateLimit = rate
    /\ hysteresisBand = hystBand
    /\ adaptiveSlopeInternal = slopeInternal

\* C6 as stated: a fresh instance with rateLimit 5, hysteresisBand 2 and slope 0, fed
\* 0, 20, 20, 20, returns 0, 5, 10, 20.
C6_ScenarioAsStated ==
    (Configured(5, 2, 0) /\ ins = <<0, 20, 20, 20>>) => outs = <<0, 5, 10, 20>>

\* C6 as amended: a fresh instance with rateLimit 5, hysteresisBand 2 and slope 0, fed
\* 0, 20, 20, 20, returns 0, 5, 10, 15: the fourth call finds delta = 10 > 5 and
\* steps by 5.
C6_FixedScenario ==
    (Configured(5, 2, 0) /\ ins = <<0, 20, 20, 20>>) => outs = <<0, 5, 10, 15>>

\* the four calls of the scenario have been made, the last one a step upward of 5
C6_Witness ==
    /\ Configured(5, 2, 0)
    /\ ins = <<0, 20, 20, 20>>
    /\ Len(outs) = 4
    /\ call.branch = "up"
    /\ call.delta = 10
    /\ call.allowedChange = 5

\* C7: a fresh instance with rateLimit 5, slope 100 (scaled 128) and hysteresisBand 0
\* returns 0 for processValue(0); the following processValue(50) computes
\* allowedChange = 55 and returns 50 by the branch that assigns the input.
C7_AdaptiveScenario ==
    /\ (Configured(5, 0, 128) /\ ins = <<0>>) => outs = <<0>>
    /\ (Configured(5, 0, 128) /\ ins = <<0, 50>>) =>
           /\ outs = <<0, 50>>
           /\ call.delta = 50
           /\ call.allowedChange = 55
           /\ call.branch = "snap"
           /\ lastValue = 50

\* the two calls of the scenario have been made on the instance constructed with slope 100
C7_Witness ==
    /\ Configured(5, 0, ScaledSlope(100))
    /\ ScaledSlope(100) = 128
    /\ ins = <<0, 50>>
    /\ Len(outs) = 2
    /\ call.op = "processValue"
    /\ call.arg = 50

----------------------------------------------------------------------------
(* C8: the allowed step as a function, checked under SpecAllowed. *)

\* C8: for a fixed rateLimit and a slope percentage p > 0, allowedChange does not
\* decrease when abs(delta) grows, and for every delta the allowedChange of percentage
\* 2p is not smaller than that of p.
C8_AllowedStepMonotone ==
    (probe.done /\ probe.percent > 0) =>
        /\ (Abs(probe.d1) <= Abs(probe.d2) => probe.a1 <= probe.a2)
        /\ probe.a1 <= probe.a1Doubled

\* an evaluation where the larger delta and the doubled percentage each allow strictly
\* more, the smaller delta being negative
C8_Witness ==
    /\ probe.done
    /\ probe.percent > 0
    /\ probe.d1 < 0
    /\ Abs(probe.d1) < Abs(probe.d2)
    /\ probe.a1 < probe.a2
    /\ probe.a1 < probe.a1Doubled
    /\ probe.a1 > probe.rate

----------------------------------------------------------------------------
(* C9 - C10: equilibrium and reset. *)

\* C9 as stated: in the Tracking state, once the output equals the input x, a further
\* processValue(x) returns x and leaves lastValue = x.
C9_EquilibriumAsStated ==
    (Tracked /\ call.prev = call.arg) =>
        /\ call.ret = call.arg
        /\ lastValue = call.arg

\* C9 as amended: the same, provided rateLimit >= 0.
C9_Equilibrium ==
    (Tracked /\ call.prev = call.arg /\ rateLimit >= 0) =>
        /\ call.ret = call.arg
        /\ lastValue = call.arg

\* a tracking call with the input equal to the last output, other than 0, under an
\* adaptive slope and a band of 0
C9_Witness ==
    /\ Tracked
    /\ call.prev = call.arg
    /\ call.arg # 0
    /\ rateLimit >= 0
    /\ adaptiveSlopeInternal > 0
    /\ hysteresisBand = 0
    /\ call.ret = call.arg

\* C10: from every reachable state reset() sets isFirstCall (the instance is no longer
\* initialized), lastValue = 0 and emaValue = 0, and leaves rateLimit, hysteresisBand,
\* currentExponent and adaptiveSlopeInternal as they were.
C10_ResetClearsHistoryOnly ==
    [][call'.op = "reset" =>
          /\ isFirstCall'
          /\ lastValue' = 0
          /\ emaValue' = 0
          /\ config' = config]_vars

\* a reset made in the Tracking state with a last output other than 0, under a
\* configuration that differs from the defaults
C10_Witness ==
    /\ call.op = "reset"
    /\ call.was = "tracking"
    /\ ~call.first
    /\ call.prev # 0
    /\ lastValue = 0
    /\ emaValue = 0
    /\ isFirstCall
    /\ rateLimit = 1
    /\ hysteresisBand = 1
    /\ adaptiveSlopeInternal = 64
    /\ currentExponent = SRL_SMOOTHING_512

----------------------------------------------------------------------------
(* C11 - C14: the setters and the configuration. *)

\* the last operation was one of the four setters
SetterCalled ==
    call.op \in {"setRateLimit", "setHysteresisBand", "setSmoothingExponent",
                 "setAdaptiveSlope"}

\* C11: each of setRateLimit, setHysteresisBand, setSmoothingExponent and
\* setAdaptiveSlope changes its own configuration member only: lastValue, emaValue,
\* isFirstCall and the other three members stay as they were, and the processValue call
\* that follows computes with the new value.
C11_SettersChangeOwnFieldOnly ==
    [][/\ call'.op = "setRateLimit" =>
              /\ rateLimit' = call'.arg
              /\ UNCHANGED <<lastValue, emaValue, isFirstCall, currentExponent,
                             hysteresisBand, adaptiveSlopeInternal>>
       /\ call'.op = "setHysteresisBand" =>
              /\ hysteresisBand' = call'.arg
              /\ UNCHANGED <<lastValue, emaValue, isFirstCall, currentExponent,
                             rateLimit, adaptiveSlopeInternal>>
       /\ call'.op = "setSmoothingExponent" =>
              /\ currentExponent' = call'.arg
              /\ UNCHANGED <<lastValue, emaValue, isFirstCall, rateLimit,
                             hysteresisBand, adaptiveSlopeInternal>>
       /\ call'.op = "setAdaptiveSlope" =>
              /\ adaptiveSlopeInternal' = (IF call'.arg >= 0
                                           THEN (call'.arg * 128 + 50) \div 100
                                           ELSE 0 - ((0 - (call'.arg * 128 + 50)) \div 100))
              /\ UNCHANGED <<lastValue, emaValue, isFirstCall, currentExponent,
                             rateLimit, hysteresisBand>>
       /\ (call.op = "setRateLimit" /\ call'.op = "processValue" /\ ~isFirstCall) =>
              call'.allowedChange =
                  call.arg + (IF adaptiveSlopeInternal # 0
                              THEN (Abs(call'.delta) * adaptiveSlopeInternal) \div 128
                              ELSE 0)
       /\ (call.op = "setHysteresisBand" /\ call'.op = "processValue" /\ ~isFirstCall) =>
              call'.ret = (IF Abs(call'.arg - call'.stepped) <= call.arg
                           THEN call'.arg ELSE call'.stepped)
       /\ (call.op = "setSmoothingExponent" /\ call'.op = "processValue"
             /\ ~isFirstCall) =>
              emaValue' = (call'.arg * (2 ^ call.arg) + emaValue * 1024
                             - emaValue * (2 ^ call.arg)) \div 1024
       /\ (call.op = "setAdaptiveSlope" /\ call'.op = "processValue" /\ ~isFirstCall) =>
              call'.allowedChange =
                  rateLimit + (IF adaptiveSlopeInternal # 0
                               THEN (Abs(call'.delta) * adaptiveSlopeInternal) \div 128
                               ELSE 0)
      ]_vars

\* setAdaptiveSlope(50) has just been called in the Tracking state, on an instance
\* whose history and other members are neither 0 nor equal to one another
C11_Witness ==
    /\ call.op = "setAdaptiveSlope"
    /\ call.arg = 50
    /\ call.was = "tracking"
    /\ ~isFirstCall
    /\ adaptiveSlopeInternal = 64
    /\ lastValue = 3
    /\ emaValue = 0 - 1
    /\ rateLimit = 2
    /\ hysteresisBand = 1
    /\ currentExponent = SRL_SMOOTHING_512

C14_ConfigInvariantAsStated ==
    /\ rateLimit >= 0
    /\ hysteresisBand >= 0
    /\ currentExponent \in 0 .. 9

\* C14 as amended: in every reachable state currentExponent is in 0 .. 9 (the
\* constructor and setSmoothingExponent take enumerators of SRL_SmoothingExponent);
\* rateLimit and hysteresisBand are whatever the constructor or their setter was last
\* given, negative values included.
C14_ConfigInvariant ==
    /\ currentExponent \in 0 .. 9
    /\ call.op = "setSmoothingExponent" => currentExponent = call.arg
    /\ call.op = "setRateLimit" => rateLimit = call.arg
    /\ call.op = "setHysteresisBand" => hysteresisBand = call.arg

\* setSmoothingExponent(SRL_SMOOTHING_512) has just been called in the Tracking state
\* of an instance whose rateLimit and hysteresisBand are negative
C14_Witness ==
    /\ call.op = "setSmoothingExponent"
    /\ call.arg = SRL_SMOOTHING_512
    /\ currentExponent = 9
    /\ call.was = "tracking"
    /\ rateLimit < 0
    /\ hysteresisBand < 0

----------------------------------------------------------------------------
(* C15 - C16: the arithmetic of a tracking call. *)

\* C15: a tracking call computes delta = input - lastValue and allowedChange =
\* rateLimit + (adaptiveSlopeInternal # 0 ? (abs(delta) * adaptiveSlopeInternal) >> 7
\* : 0); it adds allowedChange to lastValue only when delta > allowedChange, subtracts
\* it only when delta < -allowedChange, and otherwise (delta = allowedChange and
\* delta = -allowedChange included) assigns the input.
C15_RateLimitingRule ==
    Tracked =>
        /\ call.delta = call.arg - call.prev
        /\ call.allowedChange =
               rateLimit + (IF adaptiveSlopeInternal # 0
                            THEN (Abs(call.delta) * adaptiveSlopeInternal) \div 128
                            ELSE 0)
        /\ (call.delta > call.allowedChange) =>
               (call.branch = "up" /\ call.stepped = call.prev + call.allowedChange)
        /\ (~(call.delta > call.allowedChange) /\ call.delta < 0 - call.allowedChange) =>
               (call.branch = "down" /\ call.stepped = call.prev - call.allowedChange)
        /\ (~(call.delta > call.allowedChange) /\ ~(call.delta < 0 - call.allowedChange)) =>
               (call.branch = "snap" /\ call.stepped = call.arg)

\* a tracking call under an adaptive slope whose delta was exactly -allowedChange,
\* more than rateLimit, and which assigned the input
C15_Witness ==
    /\ Tracked
    /\ adaptiveSlopeInternal > 0
    /\ call.delta < 0
    /\ call.delta = 0 - call.allowedChange
    /\ call.allowedChange > rateLimit
    /\ rateLimit > 0
    /\ call.branch = "snap"
    /\ call.stepped = call.arg
    /\ hysteresisBand < 0

\* the numerator of the EMA recurrence for input x, estimate e and shift k
EmaNumerator(x, e, k) == x * (2 ^ k) + e * 1024 - e * (2 ^ k)

\* n / 1024 truncated toward zero
Truncated1024(n) == IF n >= 0 THEN n \div 1024 ELSE 0 - ((0 - n) \div 1024)

\* C16 as stated: on every tracking call the new emaValue is (input * 2^shift +
\* emaValue * 1024 - emaValue * 2^shift) / 1024 with the division truncating toward zero,
\* for negative values as well.
C16_EmaAsStated ==
    [][(call'.op = "processValue" /\ ~isFirstCall) =>
          emaValue' = Truncated1024(EmaNumerator(call'.arg, emaValue, currentExponent))
      ]_vars

\* C16 as amended: on every tracking call the new emaValue is (input * 2^shift +
\* emaValue * 1024 - emaValue * 2^shift) shifted right by 10, that is, divided by 1024
\* and rounded toward minus infinity; it equals the truncating quotient when the
\* numerator is not negative.
C16_Ema ==
    [][(call'.op = "processValue" /\ ~isFirstCall) =>
          LET n == EmaNumerator(call'.arg, emaValue, currentExponent)
          IN  /\ emaValue' = n \div 1024
              /\ 1024 * emaValue' <= n
              /\ n < 1024 * emaValue' + 1024
              /\ (n >= 0 => emaValue' = Truncated1024(n))
      ]_vars

\* a tracking call with input 3 under SRL_SMOOTHING_4 that left emaValue = -1: the
\* numerator was 12 - 1020 = -1008, whose truncating quotient is 0
C16_Witness ==
    /\ Tracked
    /\ currentExponent = SRL_SMOOTHING_4
    /\ call.arg = 3
    /\ emaValue = 0 - 1

----------------------------------------------------------------------------
(* C17: the output does not depend on the EMA, checked under SpecTwin. *)

----------------------------------------------------------------------------
(* C18: the two states of an instance. *)

\* C18: an instance is Uninitialized (isFirstCall) after construction and after reset;
\* it becomes Tracking only by a processValue call and Uninitialized again only by
\* reset; the setters, and processValue calls in the Tracking state, leave isFirstCall
\* as it is.
C18_TwoStates ==
    /\ [](call.op = "SlewRateLimiter" => isFirstCall)
    /\ [][/\ call'.op = "reset" => isFirstCall'
          /\ call'.op = "processValue" => ~isFirstCall'
          /\ (isFirstCall /\ ~isFirstCall') => call'.op = "processValue"
          /\ (~isFirstCall /\ isFirstCall') => call'.op = "reset"
          /\ call'.op \in {"setRateLimit", "setHysteresisBand", "setSmoothingExponent",
                           "setAdaptiveSlope"} => isFirstCall' = isFirstCall
          /\ isFirstCall' \in BOOLEAN
         ]_vars

\* a setter has just been called on an instance that a reset had returned to the
\* Uninitialized state, and left it there
C18_Witness ==
    /\ call.op = "setRateLimit"
    /\ call.was = "reset"
    /\ call.first
    /\ isFirstCall

----------------------------------------------------------------------------
(* C19: the 32-bit range, checked under SpecWide. *)

\* v lies in the sensor range
InSensorRange(v) == v >= 0 - SensorRange /\ v <= SensorRange

\* C19 as stated: for inputs in the sensor range, every shift in 0 .. 9 and every slope
\* percentage in 0 .. 100, every intermediate of processValue (input << shift,
\* emaValue << 10, emaValue << shift, their sum and difference, abs(delta) *
\* adaptiveSlopeInternal) stays within the signed 32-bit range in every reachable state.
C19_NoOverflowAsStated ==
    (Processed /\ InSensorRange(call.arg) /\ currentExponent \in 0 .. 9) =>
        call.branch # "overflow"

\* C19 as amended: the same, in every state where lastValue and emaValue lie in the
\* sensor range; emaValue always stays in it, and lastValue stays in it as long as
\* rateLimit >= 0 on every processValue call.
C19_NoOverflow ==
    [][/\ (call'.op = "processValue" /\ isFirstCall) =>
              (InSensorRange(lastValue') /\ InSensorRange(emaValue'))
       /\ (/\ call'.op = "processValue"
           /\ ~isFirstCall
           /\ InSensorRange(lastValue)
           /\ InSensorRange(emaValue)) =>
              /\ call'.branch # "overflow"
              /\ InSensorRange(emaValue')
              /\ (rateLimit >= 0 => InSensorRange(lastValue'))
      ]_vars

\* a tracking call with input -SensorRange on an instance whose lastValue and emaValue
\* were both SensorRange, under SRL_SMOOTHING_512 and slope 100
C19_Witness ==
    /\ Tracked
    /\ call.branch # "overflow"
    /\ currentExponent = SRL_SMOOTHING_512
    /\ adaptiveSlopeInternal = 128
    /\ call.arg = 0 - SensorRange
    /\ call.prev = SensorRange
    /\ call.delta = 0 - (2 * SensorRange)
    /\ ins = <<SensorRange, 0 - SensorRange>>
    /\ emaValue = 0

----------------------------------------------------------------------------
(* C20: no overshoot, checked under Spec. *)

\* C20: with rateLimit >= 0, hysteresisBand >= 0 and a slope >= 0, every processValue
\* call in tracking returns a value between the previous output and the input,
\* inclusive: the output moves neither past the input nor away from it.
C20_NoOvershoot ==
    (/\ Tracked
     /\ rateLimit >= 0
     /\ hysteresisBand >= 0
     /\ adaptiveSlopeInternal >= 0) =>
        IF call.prev <= call.arg
        THEN call.prev <= call.ret /\ call.ret <= call.arg
        ELSE call.arg <= call.ret /\ call.ret <= call.prev

\* a tracking call that moved part of the way: previous output 3, input -3, rate 2,
\* band 1, no adaptation, returned 1
C20_Witness ==
    /\ Tracked
    /\ Configured(2, 1, 0)
    /\ call.prev = 3
    /\ call.arg = 0 - 3
    /\ call.ret = 1
    /\ call.branch = "down"

----------------------------------------------------------------------------
(* C21: convergence under a held input, checked under SpecHold. *)

\* the least number of steps of size b that cover the distance a (a >= 0, b >= 1)
Ceil(a, b) == (a + b - 1) \div b

\* C21: with rateLimit >= 1, hysteresisBand >= 0 and a slope >= 0, when the input is
\* held at x with no setter or reset call in between, the output equals x from the
\* ceil(|x - lastValue| / rateLimit)-th held call on, and on every held call after it.
C21_Convergence ==
    (/\ ins # << >>
     /\ rateLimit >= 1
     /\ hysteresisBand >= 0
     /\ adaptiveSlopeInternal >= 0) =>
        \A i \in 1 .. Len(ins) :
            i >= Ceil(Abs(ins[1] - outs[1]), rateLimit) => outs[i + 1] = ins[1]

\* the input held at -3 from lastValue 3 with rate 1, band 0 and no adaptation: the
\* output reaches -3 on the sixth call and not before
C21_Witness ==
    /\ Configured(1, 0, 0)
    /\ ins = <<0 - 3, 0 - 3, 0 - 3, 0 - 3, 0 - 3, 0 - 3>>
    /\ outs = <<3, 2, 1, 0, 0 - 1, 0 - 2, 0 - 3>>
    /\ lastValue = 0 - 3

----------------------------------------------------------------------------
(* C22, C23: the bound with the hysteresis and the pass-through, under Spec. *)

\* C22: in fixed mode (slope 0) with rateLimit >= 0 and hysteresisBand >= 0, a
\* processValue call in tracking changes the output by at most rateLimit +
\* hysteresisBand, and by exactly that much when the input is that far from the
\* previous output.
C22_FixedModeBoundWithBand ==
    (/\ Tracked
     /\ adaptiveSlopeInternal = 0
     /\ rateLimit >= 0
     /\ hysteresisBand >= 0) =>
        /\ Step <= rateLimit + hysteresisBand
        /\ Abs(call.delta) = rateLimit + hysteresisBand =>
               Step = rateLimit + hysteresisBand

\* rate 2, band 1, no adaptation: previous output 0, input 3, returned 3
C22_Witness ==
    /\ Tracked
    /\ Configured(2, 1, 0)
    /\ call.prev = 0
    /\ call.arg = 3
    /\ call.delta = 3
    /\ call.stepped = 2
    /\ call.ret = 3

\* C23: with rateLimit >= 0 and a slope percentage >= 100 (adaptiveSlopeInternal >=
\* 128), every processValue call in tracking returns its input, for every input and
\* every hysteresisBand.
C23_PassThrough ==
    (/\ Tracked
     /\ rateLimit >= 0
     /\ adaptiveSlopeInternal >= 128) =>
        /\ call.ret = call.arg
        /\ lastValue = call.arg
        /\ call.branch = "snap"

\* rate 0, band -1, slope 150: previous output -3, input 3, returned 3
C23_Witness ==
    /\ Tracked
    /\ Configured(0, 0 - 1, 192)
    /\ call.prev = 0 - 3
    /\ call.arg = 3
    /\ call.ret = 3

====
